---- MODULE Spec2Model ----
(***************************************************************************)
(* A model of the work-partitioning, dispatch and merge code of reV:       *)
(*   - Summarize.summarize_dset      (src/reV/utilities/qa_qc.py)          *)
(*   - peregrine                     (src/reV/generation/cli_gen.py)       *)
(* Python's None, ints and tuples are tagged records, a pandas table is a   *)
(* sequence of rows, a file name is a sequence of one-character strings.   *)
(***************************************************************************)
EXTENDS Integers, Sequences, FiniteSets, TLC

\* ------------------------------------------------------------------ bounds
MaxUnits == 4
MaxProcessSize == 3
MaxWorkers == 3
NumTimes == 2

\* ------------------------------------------------------------ python values
PyNone == [kind |-> "None"]
PyInt(n) == [kind |-> "int", val |-> n]
PyTuple(s) == [kind |-> "tuple", val |-> s]
IsNone(x) == x.kind = "None"
IsInt(x) == x.kind = "int"

NoError == [type |-> "", chunk_index |-> {}, cause |-> ""]
\* `raise E`: a bare exception, with no chunk index and no chained cause
Raise(type) == [type |-> type, chunk_index |-> {}, cause |-> ""]

RECURSIVE SeqSum(_)
SeqSum(s) == IF s = <<>> THEN 0 ELSE Head(s) + SeqSum(Tail(s))
SeqMin(s) == CHOOSE x \in {s[i] : i \in 1..Len(s)} : \A j \in 1..Len(s) : x <= s[j]
SeqMax(s) == CHOOSE x \in {s[i] : i \in 1..Len(s)} : \A j \in 1..Len(s) : x >= s[j]
RECURSIVE Flatten(_)
Flatten(ss) == IF ss = <<>> THEN <<>> ELSE Head(ss) \o Flatten(Tail(ss))

VARIABLES
  \* ---- Summarize.summarize_dset
  ds_shape,      \* shape of the dataset: <<times, units>> (2-D) or <<units>> (1-D)
  ds_chunks,     \* the store's chunk metadata of the dataset
  seed,          \* selects the content of the dataset
  process_size,  \* argument, reassigned at line 134
  max_workers,   \* argument
  out_path,      \* argument
  sites,         \* the planned chunks: a sequence of sequences of unit ids
  futures,       \* one future per submitted chunk, in submission order
  completed,     \* chunk indices in the order the workers finished
  results,       \* the list `summary` while it is built (per-chunk tables)
  summary,       \* the table `summary` once computed / concatenated
  warned,        \* the 1-D "will proceed in serial" warning was issued
  csv,           \* the file at out_path
  outcome,       \* "running" | "returned" | "raised"
  error,         \* the exception that left summarize_dset
  pc,
  \* ---- peregrine
  ctx_name,      \* ctx.obj['name']
  ctx_fout,      \* ctx.obj['fout']
  ctx_obj,       \* the other entries of ctx.obj, and the verbose flag
  points,        \* the kind of ctx.obj['points']
  n_sites,       \* len(pp.sites)
  nodes,         \* argument
  fout,          \* the local `fout`, reassigned at line 270
  splits,        \* the splits the PointsControl `pc` iterates over
  jobs,          \* the dict `jobs`: chunk index -> PBS object
  per_outcome,   \* "running" | "returned" | "raised"
  per_error,     \* the exception that left peregrine
  per_pc

\* Summarize.run(h5_file, out_dir, group, dsets, process_size, max_workers)
VARIABLES
  store,            \* the .h5 file: group -> the data sets it holds besides meta and time_index
  run_group,        \* the argument `group`
  run_dsets,        \* the argument `dsets`
  run_process_size, \* the argument `process_size`
  run_max_workers,  \* the argument `max_workers`
  dsets,            \* the list `dsets` after lines 237-242
  self_group,       \* summary._group of the instance built at line 244
  ds_i,             \* the number of iterations of the loop at line 245 done
  files,            \* the .csv files the loop wrote to out_dir, in order
  means,            \* the file summarize_means wrote
  run_outcome,      \* "running" | "returned" | "raised"
  run_error,
  run_pc

\* from_config(ctx, config_file, verbose)
VARIABLES
  cfg_ctx,        \* ctx.obj, a dict: key -> value
  cfg_name,       \* the local `name` of line 62
  cfg_years,      \* config.years
  cfg_res_files,  \* config.res_files
  cfg_option,     \* config.execution_control.option
  cfg_i,          \* the number of iterations of the loop at line 90 done
  cfg_calls,      \* the runs invoked so far: what each read from ctx.obj
  cfg_outcome,    \* "running" | "returned" | "raised"
  cfg_error,
  cfg_pc

\* AggregationConfig(config) and RepProfilesConfig(config): _preflight
VARIABLES
  pf_class,       \* "sc_agg" | "rep_profiles": the NAME of the config class
  pf_config,      \* the config dict: key -> value
  pf_techmap,     \* os.path.exists(fpath_techmap)
  pf_missing,     \* the list `missing`
  pf_req,         \* the loop variable `req`
  pf_i,           \* the number of requirements the loop has looked at
  pf_outcome,     \* "running" | "returned" | "raised"
  pf_error,
  pf_msg,         \* which message the ConfigError carries
  pf_pc

sumvars == <<ds_shape, ds_chunks, seed, process_size, max_workers, out_path,
             sites, futures, completed, results, summary, warned, csv,
             outcome, error, pc>>

pervars == <<ctx_name, ctx_fout, ctx_obj, points, n_sites, nodes, fout, splits, jobs,
             per_outcome, per_error, per_pc>>

runvars == <<store, run_group, run_dsets, run_process_size, run_max_workers,
             dsets, self_group, ds_i, files, means, run_outcome, run_error, run_pc>>

cfgvars == <<cfg_ctx, cfg_name, cfg_years, cfg_res_files, cfg_option, cfg_i,
             cfg_calls, cfg_outcome, cfg_error, cfg_pc>>

pfvars == <<pf_class, pf_config, pf_techmap, pf_missing, pf_req, pf_i, pf_outcome,
            pf_error, pf_msg, pf_pc>>

vars == <<sumvars, pervars, runvars, cfgvars, pfvars>>

\* ------------------------------------------------------------- input sets
DataSeeds == {0, 1}
WorkerErrors == {"OSError", "KeyError"}
ProcessSizes == {PyNone} \cup {PyInt(n) : n \in -1..MaxProcessSize}
WorkerCounts == {PyNone} \cup {PyInt(n) : n \in 0..MaxWorkers}
OutPaths == {PyNone, [kind |-> "str", val |-> "out.csv"]}
Shapes == {<<n>> : n \in 1..MaxUnits} \cup {<<NumTimes, n>> : n \in 1..MaxUnits}
\* h5py reports a dataset's chunks as None (contiguous) or a tuple, one entry per axis
ChunksOf(shape) == {PyNone, PyTuple([i \in 1..Len(shape) |-> 1])}

\* ------------------------------------------------------------ the dataset
NumUnits == ds_shape[Len(ds_shape)]
\* value of the 2-D dataset at time t (1-based) for unit u (0-based)
Value(u, t) == u * t + seed
\* ReadData reading the first len(sites) columns instead of the columns `sites`
ReadDataByPosition(units) == [k \in 1..Len(units) |-> [t \in 1..NumTimes |-> Value(k - 1, t)]]
\* h5_fhandle[ds_name, :, sites]: one column per requested unit, in request order
ReadData(units) == [k \in 1..Len(units) |-> [t \in 1..NumTimes |-> Value(units[k], t)]]
\* h5_fhandle['meta', sites].index: the gids of the requested units
ReadMetaIndex(units) == [k \in 1..Len(units) |-> units[k]]
\* describe().T.drop(columns=['count']) plus the 'sum' column: one row per unit.
\* mean, std and the quartiles are, like min and max, functions of the unit's
\* own column alone; min, max and sum stand for them.
ComputeSitesSummary(units) ==
  LET sites_meta_index == ReadMetaIndex(units)
      sites_data == ReadData(units)
  IN [k \in 1..Len(units) |->
        [gid |-> sites_meta_index[k],
         min |-> SeqMin(sites_data[k]),
         max |-> SeqMax(sites_data[k]),
         sum |-> SeqSum(sites_data[k])]]
\* _compute_ds_summary for a vector dataset: a single column of statistics
ComputeDsSummary ==
  LET ds_data == [u \in 1..NumUnits |-> Value(u - 1, 1)]
  IN <<[gid |-> -1, min |-> SeqMin(ds_data), max |-> SeqMax(ds_data),
        sum |-> SeqSum(ds_data)]>>

\* ------------------------------------------------------------ chunk plan
\* np.arange(n)
Arange(n) == [k \in 1..n |-> k - 1]
\* int(np.ceil(a / b)) for ints a >= 0, b # 0
CeilDiv(a, b) == IF b > 0 THEN (a + b - 1) \div b ELSE -(a \div (-b))
\* ArraySplit cutting n sections of one fixed size, the last one shorter
ArraySplitFixed(ary, n) ==
  LET size == (Len(ary) + n - 1) \div n
      stop(i) == IF i * size < Len(ary) THEN i * size ELSE Len(ary)
  IN [i \in 1..n |-> SubSeq(ary, stop(i - 1) + 1, stop(i))]
\* np.array_split(ary, n), n > 0: the first len % n sections hold len // n + 1
\* elements, the others len // n
ArraySplit(ary, n) ==
  LET each == Len(ary) \div n
      extras == Len(ary) % n
      start(i) == (i - 1) * each + (IF i - 1 < extras THEN i - 1 ELSE extras)
  IN [i \in 1..n |-> SubSeq(ary, start(i) + 1, start(i + 1))]
\* NumSections rounding down instead of up
NumSectionsFloor(n, ps) == n \div ps
\* the number of sections of `np.array_split(sites, int(np.ceil(len(sites) / ps)))`
NumSections(n, ps) == CeilDiv(n, ps)
\* PlanError without np.array_split's check of the number of sections
PlanErrorNoSectionCheck(n, ps) ==
  IF ~IsInt(ps) THEN "TypeError"
  ELSE IF ps.val = 0 THEN "ZeroDivisionError"
  ELSE ""
\* what evaluating len(sites) / process_size and the split raises, "" if nothing
PlanError(n, ps) ==
  IF ~IsInt(ps) THEN "TypeError"
  ELSE IF ps.val = 0 THEN "ZeroDivisionError"
  ELSE IF NumSections(n, ps.val) <= 0 THEN "ValueError"
  ELSE ""
PlanChunks(n, ps) == ArraySplit(Arange(n), NumSections(n, ps.val))

\* ------------------------------------------------------------------- Init
\* summarize_dset is about to be called
SumIdle ==
  /\ sites = <<>>
  /\ futures = <<>>
  /\ completed = <<>>
  /\ results = <<>>
  /\ summary = <<>>
  /\ warned = FALSE
  /\ csv = [written |-> FALSE, table |-> <<>>]
  /\ outcome = "running"
  /\ error = NoError
  /\ pc = "call"

\* ctx.obj as `direct` or `from_config` fills it (lines 81-87, 166-174),
\* `fout`, `name` and `points` apart; b is the cf_profiles flag
CtxObj(b) ==
  [tech |-> "pv", sam_files |-> "sam.json", res_file |-> "res_2012.h5",
   sites_per_core |-> 100, dirout |-> "./out", logdir |-> "./log",
   cf_profiles |-> b, verbose |-> FALSE]

\* the data sets a group can hold besides the reserved ones, in the order
\* f.datasets lists them
DsOrder == <<"cf_mean", "cf_profile">>
\* the number of axes of a data set: cf_profile is (time, unit), cf_mean (unit,)
Ndim(ds_name) == IF ds_name = "cf_profile" THEN 2 ELSE 1
\* the root group (group=None) and one named group
GroupG == [kind |-> "str", val |-> "g"]
Groups == {PyNone, GroupG}
NoMeans == [written |-> FALSE, group |-> PyNone, columns |-> <<>>]

\* Summarize.run is not running
RunIdle ==
  /\ store = [g \in Groups |-> {}]
  /\ run_group = PyNone
  /\ run_dsets = PyNone
  /\ run_process_size = PyNone
  /\ run_max_workers = PyNone
  /\ dsets = <<>>
  /\ self_group = PyNone
  /\ ds_i = 0
  /\ files = <<>>
  /\ means = NoMeans
  /\ run_outcome = "idle"
  /\ run_error = NoError
  /\ run_pc = "idle"

\* no config is being built
PfIdle ==
  /\ pf_class = "sc_agg"
  /\ pf_config = <<>>
  /\ pf_techmap = FALSE
  /\ pf_missing = <<>>
  /\ pf_req = <<>>
  /\ pf_i = 0
  /\ pf_outcome = "idle"
  /\ pf_error = NoError
  /\ pf_msg = ""
  /\ pf_pc = "idle"

\* from_config is not running
CfgIdle ==
  /\ cfg_ctx = <<>>
  /\ cfg_name = <<>>
  /\ cfg_years = <<>>
  /\ cfg_res_files = <<>>
  /\ cfg_option = "local"
  /\ cfg_i = 0
  /\ cfg_calls = <<>>
  /\ cfg_outcome = "idle"
  /\ cfg_error = NoError
  /\ cfg_pc = "idle"

\* peregrine is not running
PerIdle ==
  /\ ctx_name = <<>>
  /\ ctx_fout = <<>>
  /\ ctx_obj = CtxObj(FALSE)
  /\ points = "slice"
  /\ n_sites = 1
  /\ nodes = PyInt(1)
  /\ fout = <<>>
  /\ splits = <<>>
  /\ jobs = <<>>
  /\ per_outcome = "idle"
  /\ per_error = NoError
  /\ per_pc = "idle"

Init ==
  /\ ds_shape \in Shapes
  /\ ds_chunks \in ChunksOf(ds_shape)
  /\ seed \in DataSeeds
  /\ process_size \in ProcessSizes
  /\ max_workers \in WorkerCounts
  /\ out_path \in OutPaths
  /\ SumIdle
  /\ PerIdle
  /\ RunIdle
  /\ CfgIdle
  /\ PfIdle

\* the call ends with exception e
Fails(e) ==
  /\ outcome' = "raised"
  /\ error' = e
  /\ pc' = "done"

PendingFuture == [status |-> "pending", table |-> <<>>, exc |-> NoError]

\* UsePool sending a single worker to the pool as well
UsePoolFromOne(mw) == mw.val >= 1
\* line 132: `if max_workers > 1`, for an integer max_workers
UsePool(mw) == mw.val > 1

\* lines 128-146 and 151-157, 167-172: open the store, choose the path, plan
\* the chunks and, on the pool path, submit one future per chunk
Call ==
  /\ UNCHANGED <<pervars, runvars, cfgvars, pfvars>>
  /\ pc = "call"
  /\ UNCHANGED <<ds_shape, ds_chunks, seed, max_workers, out_path, completed,
                 results, summary, csv>>
  /\ IF Len(ds_shape) > 1
     THEN /\ UNCHANGED warned
          /\ IF IsNone(max_workers)
             THEN \* line 132: None > 1
                  /\ Fails(Raise("TypeError"))
                  /\ UNCHANGED <<process_size, sites, futures>>
             ELSE IF UsePool(max_workers)
             THEN LET ps == IF IsNone(process_size) THEN ds_chunks ELSE process_size
                  IN /\ process_size' = ps
                     /\ IF PlanError(NumUnits, ps) # ""
                        THEN /\ Fails(Raise(PlanError(NumUnits, ps)))
                             /\ UNCHANGED <<sites, futures>>
                        ELSE /\ sites' = PlanChunks(NumUnits, ps)
                             /\ futures' = [k \in 1..Len(sites') |-> PendingFuture]
                             /\ pc' = "pool"
                             /\ UNCHANGED <<outcome, error>>
             ELSE IF IsNone(process_size)
             THEN /\ sites' = Arange(NumUnits)
                  /\ pc' = "single"
                  /\ UNCHANGED <<process_size, futures, outcome, error>>
             ELSE /\ UNCHANGED <<process_size, futures>>
                  /\ IF PlanError(NumUnits, process_size) # ""
                     THEN /\ Fails(Raise(PlanError(NumUnits, process_size)))
                          /\ UNCHANGED sites
                     ELSE /\ sites' = PlanChunks(NumUnits, process_size)
                          /\ pc' = "serial"
                          /\ UNCHANGED <<outcome, error>>
     ELSE /\ UNCHANGED <<process_size, sites, futures>>
          /\ IF ~IsNone(process_size)
             THEN /\ warned' = TRUE
                  /\ pc' = "vector"
                  /\ UNCHANGED <<outcome, error>>
             ELSE IF IsNone(max_workers)
             THEN \* line 168: None > 1
                  /\ Fails(Raise("TypeError"))
                  /\ UNCHANGED warned
             ELSE /\ warned' = (max_workers.val > 1)
                  /\ pc' = "vector"
                  /\ UNCHANGED <<outcome, error>>

\* The pool starts the submitted chunks in submission order on max_workers
\* processes: the running futures are the first max_workers unfinished ones
Running(k) ==
  /\ futures[k].status = "pending"
  /\ Cardinality({j \in 1..(k - 1) : futures[j].status = "pending"}) < max_workers.val

\* a pool worker finishes _compute_sites_summary(f, ds_name, sites[k]): the
\* future holds its table, or the exception it raised
WorkerDone(k) ==
  /\ UNCHANGED <<pervars, runvars, cfgvars, pfvars>>
  /\ pc = "pool"
  /\ Running(k)
  /\ \E res \in {"ok"} \cup WorkerErrors :
       futures' = [futures EXCEPT ![k] =
                     IF res = "ok"
                     THEN [status |-> "ok", table |-> ComputeSitesSummary(sites[k]),
                           exc |-> NoError]
                     ELSE [status |-> "exc", table |-> <<>>, exc |-> Raise(res)]]
  /\ completed' = Append(completed, k)
  /\ UNCHANGED <<ds_shape, ds_chunks, seed, process_size, max_workers, out_path,
                 sites, results, summary, warned, csv, outcome, error, pc>>

\* NextFuture taking the futures as they complete instead of as submitted
NextFutureAsCompleted ==
  IF Len(results) < Len(completed) THEN completed[Len(results) + 1] ELSE Len(futures) + 1
\* line 148: the future whose result() the list comprehension asks for next
NextFuture == Len(results) + 1

\* FutureResult replacing the worker's exception by a generic one
FutureResultGeneric(fut) ==
  IF fut.status = "ok"
  THEN /\ results' = Append(results, fut.table)
       /\ UNCHANGED <<outcome, error, pc>>
  ELSE /\ Fails(Raise("RuntimeError"))
       /\ UNCHANGED results
\* FutureResult swallowing the worker's exception and going on without its rows
FutureResultSwallow(fut) ==
  /\ results' = Append(results, fut.table)
  /\ UNCHANGED <<outcome, error, pc>>
\* future.result() of a finished future: its table, or its exception re-raised
FutureResult(fut) ==
  IF fut.status = "ok"
  THEN /\ results' = Append(results, fut.table)
       /\ UNCHANGED <<outcome, error, pc>>
  ELSE /\ Fails(fut.exc)
       /\ UNCHANGED results

\* line 148, one element of `[future.result() for future in futures]`:
\* blocks until the future is done
Collect ==
  /\ UNCHANGED <<pervars, runvars, cfgvars, pfvars>>
  /\ pc = "pool"
  /\ NextFuture <= Len(futures)
  /\ futures[NextFuture].status # "pending"
  /\ FutureResult(futures[NextFuture])
  /\ UNCHANGED <<ds_shape, ds_chunks, seed, process_size, max_workers, out_path,
                 sites, futures, completed, summary, warned, csv>>

\* lines 160-162, one iteration of the serial loop over the chunks
SerialStep ==
  /\ UNCHANGED <<pervars, runvars, cfgvars, pfvars>>
  /\ pc = "serial"
  /\ Len(results) < Len(sites)
  /\ \E res \in {"ok"} \cup WorkerErrors :
       IF res = "ok"
       THEN /\ results' = Append(results, ComputeSitesSummary(sites[Len(results) + 1]))
            /\ UNCHANGED <<outcome, error, pc>>
       ELSE /\ Fails(Raise(res))
            /\ UNCHANGED results
  /\ UNCHANGED <<ds_shape, ds_chunks, seed, process_size, max_workers, out_path,
                 sites, futures, completed, summary, warned, csv>>

\* PdConcat losing the last table of the list
PdConcatDropLast(tables) == Flatten(SubSeq(tables, 1, Len(tables) - 1))
\* pd.concat(summary): the rows of the tables, one table after the other
PdConcat(tables) == Flatten(tables)

\* lines 150 and 164, then 166: every chunk's table is in the list
Concat ==
  /\ UNCHANGED <<pervars, runvars, cfgvars, pfvars>>
  /\ pc \in {"pool", "serial"}
  /\ Len(results) = Len(sites)
  /\ summary' = PdConcat(results)
  /\ pc' = "merged"
  /\ UNCHANGED <<ds_shape, ds_chunks, seed, process_size, max_workers, out_path,
                 sites, futures, completed, results, warned, csv, outcome, error>>

\* line 153 (all units of a 2-D dataset at once) and line 174 (a 1-D dataset)
SinglePass ==
  /\ UNCHANGED <<pervars, runvars, cfgvars, pfvars>>
  /\ pc \in {"single", "vector"}
  /\ \E res \in {"ok"} \cup WorkerErrors :
       IF res = "ok"
       THEN /\ summary' = IF pc = "single" THEN ComputeSitesSummary(sites)
                          ELSE ComputeDsSummary
            /\ pc' = "merged"
            /\ UNCHANGED <<outcome, error>>
       ELSE /\ Fails(Raise(res))
            /\ UNCHANGED summary
  /\ UNCHANGED <<ds_shape, ds_chunks, seed, process_size, max_workers, out_path,
                 sites, futures, completed, results, warned, csv>>

\* lines 176-179: write the table if a path was given, and return it
WriteReturn ==
  /\ UNCHANGED <<pervars, runvars, cfgvars, pfvars>>
  /\ pc = "merged"
  /\ csv' = IF IsNone(out_path) THEN csv ELSE [written |-> TRUE, table |-> summary]
  /\ outcome' = "returned"
  /\ pc' = "done"
  /\ UNCHANGED <<ds_shape, ds_chunks, seed, process_size, max_workers, out_path,
                 sites, futures, completed, results, summary, warned, error>>

Next ==
  \/ Call
  \/ \E k \in 1..Len(futures) : WorkerDone(k)
  \/ Collect
  \/ SerialStep
  \/ Concat
  \/ SinglePass
  \/ WriteReturn

Spec == Init /\ [][Next]_vars

\* ---------------------------------------------------------------- strings
H5 == <<".", "h", "5">>
Digits == <<"0", "1", "2", "3", "4", "5", "6", "7", "8", "9">>
\* '{}'.format(i) for an int i >= 0
RECURSIVE ToStr(_)
ToStr(i) == IF i < 10 THEN <<Digits[i + 1]>> ELSE ToStr(i \div 10) \o <<Digits[(i % 10) + 1]>>
\* s.endswith(suffix)
EndsWith(s, suffix) ==
  /\ Len(s) >= Len(suffix)
  /\ SubSeq(s, Len(s) - Len(suffix) + 1, Len(s)) = suffix
RECURSIVE LStrip(_, _)
LStrip(s, chars) == IF s # <<>> /\ Head(s) \in chars THEN LStrip(Tail(s), chars) ELSE s
RECURSIVE RStrip(_, _)
RStrip(s, chars) ==
  IF s # <<>> /\ s[Len(s)] \in chars THEN RStrip(SubSeq(s, 1, Len(s) - 1), chars) ELSE s
\* s.strip(chars): every leading and trailing character that is in `chars`
\* is removed; `chars` is a set of characters, not a suffix
StrStrip(s, chars) == RStrip(LStrip(s, {chars[k] : k \in 1..Len(chars)}), {chars[k] : k \in 1..Len(chars)})

\* -------------------------------------------------------------- peregrine
MaxSites == 4
MaxNodes == 3
MaxStem == 2

StemChars == {"a", "h", "5"}
Stems == UNION {[1..n -> StemChars] : n \in 0..MaxStem}
\* output file names: with and without the .h5 extension
FoutNames == {st \o H5 : st \in Stems} \cup (Stems \ {<<>>})
Names == {<<"g", "e", "n">>}
PointsKinds == {"slice", "int"}

InitPeregrine ==
  /\ ctx_name \in Names
  /\ ctx_fout \in FoutNames
  /\ ctx_obj \in {CtxObj(b) : b \in BOOLEAN}
  /\ points \in PointsKinds
  /\ n_sites \in 1..MaxSites
  /\ nodes \in {PyInt(n) : n \in 0..MaxNodes}
  /\ fout = <<>>
  /\ splits = <<>>
  /\ jobs = <<>>
  /\ per_outcome = "running"
  /\ per_error = NoError
  /\ per_pc = "call"
  /\ ds_shape = <<1>>
  /\ ds_chunks = PyNone
  /\ seed = 0
  /\ process_size = PyNone
  /\ max_workers = PyInt(1)
  /\ out_path = PyNone
  /\ SumIdle
  /\ RunIdle
  /\ CfgIdle
  /\ PfIdle

PerFails(e) ==
  /\ per_outcome' = "raised"
  /\ per_error' = e
  /\ per_pc' = "done"

\* SitesPerNode rounding down instead of up
SitesPerNodeFloor(n, nd) == n \div nd
\* line 256: ceil(len(pp.sites) / nodes)
SitesPerNode(n, nd) == CeilDiv(n, nd)

\* PointsControl(pp, sites_per_split=sps), iterated: consecutive ranges
\* [i0, i1) of sps sites, the last one possibly shorter
PointsControlSplits(n, sps) ==
  [k \in 1..(IF sps <= 0 THEN 0 ELSE CeilDiv(n, sps)) |->
     [i0 |-> (k - 1) * sps, i1 |-> IF k * sps < n THEN k * sps ELSE n]]

\* what a PBS submission can end with: a job id, no job id, or an exception
PbsOutcomes == {"id", "noid", "raise"}

\* lines 239-262: read the context, build the points control, jobs = {}
PeregrineCall ==
  /\ per_pc = "call"
  /\ UNCHANGED <<sumvars, runvars, cfgvars, pfvars>>
  /\ UNCHANGED <<ctx_name, ctx_fout, ctx_obj, points, n_sites, nodes>>
  /\ fout' = ctx_fout
  /\ jobs' = <<>>
  /\ IF points \notin {"str", "slice", "list", "tuple"}
     THEN /\ PerFails(Raise("TypeError"))
          /\ UNCHANGED splits
     ELSE IF nodes.val = 0
     THEN /\ PerFails(Raise("ZeroDivisionError"))
          /\ UNCHANGED splits
     ELSE /\ splits' = PointsControlSplits(n_sites, SitesPerNode(n_sites, nodes.val))
          /\ per_pc' = "loop"
          /\ UNCHANGED <<per_outcome, per_error>>

\* line 267
NodeName(name, i) == name \o <<"_">> \o ToStr(i)
\* StripH5 cutting the last three characters on every iteration
StripH5Slice(f) == SubSeq(f, 1, IF Len(f) > 3 THEN Len(f) - 3 ELSE 0)
\* lines 268-270: the value of `fout` after the if statement
StripH5(f) == IF EndsWith(f, H5) THEN StrStrip(f, H5) ELSE f
\* line 272
FoutNode(f, i) == f \o <<"_", "n", "o", "d", "e", "_">> \o ToStr(i) \o H5

\* BuildCmd giving every sub-job the first split's range
BuildCmdFirstRange(node_name, fout_node, split_range) ==
  [n |-> node_name, t |-> ctx_obj.tech, p |-> points, sf |-> ctx_obj.sam_files,
   rf |-> ctx_obj.res_file, spc |-> ctx_obj.sites_per_core, fo |-> fout_node,
   do |-> ctx_obj.dirout, lo |-> ctx_obj.logdir, cfp |-> ctx_obj.cf_profiles,
   nw |-> PyNone, pr |-> splits[1], v |-> ctx_obj.verbose]
\* lines 275-310: the arguments of the sub-job command, by option (the values
\* before PBS.s formats them): -n of main, the options of direct, -nw, -pr
\* and -v of local
BuildCmd(node_name, fout_node, split_range) ==
  [n |-> node_name, t |-> ctx_obj.tech, p |-> points, sf |-> ctx_obj.sam_files,
   rf |-> ctx_obj.res_file, spc |-> ctx_obj.sites_per_core, fo |-> fout_node,
   do |-> ctx_obj.dirout, lo |-> ctx_obj.logdir, cfp |-> ctx_obj.cf_profiles,
   nw |-> PyNone, pr |-> split_range, v |-> ctx_obj.verbose]

\* LoopIndex counting from one, as enumerate(pc, 1) would
LoopIndexFromOne == Cardinality(DOMAIN jobs) + 1
\* the loop variable i of `for i, split in enumerate(pc)`
LoopIndex == Cardinality(DOMAIN jobs)

\* lines 264-322, one iteration: name the node and its output file, build the
\* command, submit it through PBS and record the PBS object under i
PeregrineStep ==
  /\ per_pc = "loop"
  /\ LoopIndex < Len(splits)
  /\ UNCHANGED <<sumvars, runvars, cfgvars, pfvars>>
  /\ UNCHANGED <<ctx_name, ctx_fout, ctx_obj, points, n_sites, nodes, splits>>
  /\ fout' = StripH5(fout)
  /\ \E sub \in PbsOutcomes :
       LET i == LoopIndex
           pbs == [id |-> IF sub = "id" THEN [kind |-> "str", val |-> "job"] ELSE PyNone,
                   name |-> NodeName(ctx_name, i),
                   fout |-> FoutNode(fout', i),
                   points_range |-> splits[i + 1],
                   cmd |-> BuildCmd(NodeName(ctx_name, i), FoutNode(fout', i),
                                    splits[i + 1])]
       IN IF sub = "raise"
          THEN /\ PerFails(Raise("SubmissionError"))
               /\ UNCHANGED jobs
          ELSE /\ jobs' = (i :> pbs) @@ jobs
               /\ UNCHANGED <<per_outcome, per_error, per_pc>>

\* line 324: the loop is over, return jobs
PeregrineReturn ==
  /\ per_pc = "loop"
  /\ LoopIndex = Len(splits)
  /\ per_outcome' = "returned"
  /\ per_pc' = "done"
  /\ UNCHANGED <<sumvars, runvars, cfgvars, pfvars>>
  /\ UNCHANGED <<ctx_name, ctx_fout, ctx_obj, points, n_sites, nodes, fout, splits, jobs, per_error>>

PeregrineNext ==
  \/ PeregrineCall
  \/ PeregrineStep
  \/ PeregrineReturn

SpecPeregrine == InitPeregrine /\ [][PeregrineNext]_vars

\* ---------------------------------------------------------- the chunk plan
\* The chunk planning of summarize_dset as a function of the unit count and
\* process_size: the call's first step alone, on the serial chunked path
\* (max_workers = 1) and on the pool path (max_workers = 2), the scenario
\* of 250 units in chunks of 100 included.
MaxPlanUnits == 12
MaxPlanSize == 6

InitPlan ==
  /\ ds_shape \in {<<NumTimes, n>> : n \in (1..MaxPlanUnits) \cup {250}}
  /\ ds_chunks = PyNone
  /\ seed = 0
  /\ process_size \in {PyInt(n) : n \in (1..MaxPlanSize) \cup {100}}
  /\ max_workers \in {PyInt(1), PyInt(2)}
  /\ out_path = PyNone
  /\ SumIdle
  /\ PerIdle
  /\ RunIdle
  /\ CfgIdle
  /\ PfIdle

SpecPlan == InitPlan /\ [][Call]_vars

\* ---------------------------------------------------------- Summarize.run
\* the units of every data set of the store
RunUnits == 2
RunProcessSizes == {PyNone, PyInt(1)}
RunWorkerCounts == {PyNone, PyInt(1), PyInt(2)}
DsetsArgs == {PyNone} \cup {[kind |-> "str", val |-> d] : d \in {"cf_mean", "cf_profile"}}

\* Summarize.run is about to be called
InitRun ==
  /\ store \in [Groups -> SUBSET {"cf_mean", "cf_profile"}]
  /\ run_group \in Groups
  /\ run_dsets \in DsetsArgs
  /\ run_process_size \in RunProcessSizes
  /\ run_max_workers \in RunWorkerCounts
  /\ dsets = <<>>
  /\ self_group = PyNone
  /\ ds_i = 0
  /\ files = <<>>
  /\ means = NoMeans
  /\ run_outcome = "running"
  /\ run_error = NoError
  /\ run_pc = "start"
  /\ ds_shape = <<1>>
  /\ ds_chunks = PyNone
  /\ seed = 0
  /\ process_size = PyNone
  /\ max_workers = PyNone
  /\ out_path = PyNone
  /\ SumIdle
  /\ PerIdle
  /\ CfgIdle
  /\ PfIdle

\* Resource(h5_file, group=group).datasets: meta, time_index and the group's
\* own data sets
Datasets(group) ==
  <<"meta", "time_index">> \o SelectSeq(DsOrder, LAMBDA d : d \in store[group])
\* the filter `dset not in ['meta', 'time_index']` of lines 239-240 and 202
NotReserved(names) == SelectSeq(names, LAMBDA d : d \notin {"meta", "time_index"})
\* what a group's data holds: the two groups hold different values
SeedOf(group) == IF IsNone(group) THEN 0 ELSE 1
\* os.path.join(out_dir, "{}_summary.csv".format(ds_name))
SummaryPath(ds_name) == [kind |-> "str", val |-> <<ds_name, "_summary.csv">>]

RunFails(e) ==
  /\ run_outcome' = "raised"
  /\ run_error' = e
  /\ run_pc' = "done"

\* lines 234-244: resolve the list of data sets, build the Summarize instance
RunResolve ==
  /\ run_pc = "start"
  /\ dsets' = IF IsNone(run_dsets) THEN NotReserved(Datasets(run_group))
              ELSE <<run_dsets.val>>
  /\ self_group' = PyNone
  /\ run_pc' = "loop"
  /\ UNCHANGED <<store, run_group, run_dsets, run_process_size, run_max_workers,
                 ds_i, files, means, run_outcome, run_error>>
  /\ UNCHANGED <<sumvars, pervars, cfgvars, pfvars>>

\* lines 245-249 and 128-129: the next data set; summarize_dset opens the
\* store with the instance's group and reads the data set's properties
RunEnterDset ==
  /\ run_pc = "loop"
  /\ ds_i < Len(dsets)
  /\ UNCHANGED <<pervars, cfgvars, pfvars>>
  /\ UNCHANGED <<store, run_group, run_dsets, run_process_size, run_max_workers,
                 dsets, self_group, ds_i, files, means>>
  /\ LET ds_name == dsets[ds_i + 1]
     IN IF ds_name \notin store[self_group]
        THEN /\ RunFails(Raise("KeyError"))
             /\ UNCHANGED sumvars
        ELSE /\ ds_shape' = IF Ndim(ds_name) = 2 THEN <<NumTimes, RunUnits>>
                            ELSE <<RunUnits>>
             /\ ds_chunks' \in ChunksOf(ds_shape')
             /\ seed' = SeedOf(self_group)
             /\ process_size' = run_process_size
             /\ max_workers' = run_max_workers
             /\ out_path' = SummaryPath(ds_name)
             /\ sites' = <<>>
             /\ futures' = <<>>
             /\ completed' = <<>>
             /\ results' = <<>>
             /\ summary' = <<>>
             /\ warned' = FALSE
             /\ csv' = [written |-> FALSE, table |-> <<>>]
             /\ outcome' = "running"
             /\ error' = NoError
             /\ pc' = "call"
             /\ run_pc' = "dset"
             /\ UNCHANGED <<run_outcome, run_error>>

\* summarize_dset is over: its exception leaves run, or the loop goes on with
\* the file it wrote
RunLeaveDset ==
  /\ run_pc = "dset"
  /\ pc = "done"
  /\ UNCHANGED <<sumvars, pervars, cfgvars, pfvars>>
  /\ UNCHANGED <<store, run_group, run_dsets, run_process_size, run_max_workers,
                 dsets, self_group, means>>
  /\ IF outcome = "raised"
     THEN /\ RunFails(error)
          /\ UNCHANGED <<ds_i, files>>
     ELSE /\ files' = Append(files, [path |-> out_path.val, ds_name |-> dsets[ds_i + 1],
                                     group |-> self_group, table |-> csv.table])
          /\ ds_i' = ds_i + 1
          /\ run_pc' = "loop"
          /\ UNCHANGED <<run_outcome, run_error>>

\* lines 201-205: the columns summarize_means adds to the meta data
MeansColumns(group) ==
  SelectSeq(NotReserved(Datasets(group)), LAMBDA d : Ndim(d) = 1)

\* lines 251-253 and 195-210: the means summary, and run returns
RunMeans ==
  /\ run_pc = "loop"
  /\ ds_i = Len(dsets)
  /\ means' = [written |-> TRUE, group |-> self_group,
               columns |-> MeansColumns(self_group)]
  /\ run_outcome' = "returned"
  /\ run_pc' = "done"
  /\ UNCHANGED <<store, run_group, run_dsets, run_process_size, run_max_workers,
                 dsets, self_group, ds_i, files, run_error>>
  /\ UNCHANGED <<sumvars, pervars, cfgvars, pfvars>>

RunNext ==
  \/ RunResolve
  \/ RunEnterDset
  \/ (run_pc = "dset" /\ Next)
  \/ RunLeaveDset
  \/ RunMeans

SpecRun == InitRun /\ [][RunNext]_vars

\* ------------------------------------------------------------ from_config
\* job names given with -n: without digits, ending in a year, with three
\* digits only, and with four digits that start outside 1-3
CfgNames == {<<"g">>, <<"g", "2", "0", "1", "2">>, <<"g", "2", "0", "1">>,
             <<"g", "4", "0", "1", "2">>}
CfgYears == {<<2012>>, <<2012, 2013>>}
CfgOptions == {"local", "peregrine", "slurm"}
\* a resource file named after year y
ResFile(y) == <<"r", "_">> \o ToStr(y) \o H5

\* from_config is about to be called: main has filled ctx.obj['name']
InitConfig ==
  /\ cfg_ctx \in {("name" :> n) : n \in CfgNames}
  /\ cfg_name = <<>>
  /\ cfg_years \in CfgYears
  /\ cfg_res_files \in {[k \in 1..Len(cfg_years) |-> ResFile(cfg_years[k])],
                        [k \in 1..Len(cfg_years) |-> ResFile(2012)]}
  /\ cfg_option \in CfgOptions
  /\ cfg_i = 0
  /\ cfg_calls = <<>>
  /\ cfg_outcome = "running"
  /\ cfg_error = NoError
  /\ cfg_pc = "start"
  /\ ds_shape = <<1>>
  /\ ds_chunks = PyNone
  /\ seed = 0
  /\ process_size = PyNone
  /\ max_workers = PyInt(1)
  /\ out_path = PyNone
  /\ SumIdle
  /\ PerIdle
  /\ RunIdle
  /\ PfIdle

\* `sub in s` for strings
Contains(s, sub) ==
  \E k \in 0..(Len(s) - Len(sub)) : SubSeq(s, k + 1, k + Len(sub)) = sub
\* line 95: re.match(r'.*([1-3][0-9]{3})', name) finds a match
HasYear(name) ==
  \E k \in 1..(Len(name) - 3) :
    /\ name[k] \in {"1", "2", "3"}
    /\ \A d \in 1..3 : \E n \in 1..10 : name[k + d] = Digits[n]

CfgFails(e) ==
  /\ cfg_outcome' = "raised"
  /\ cfg_error' = e
  /\ cfg_pc' = "done"

\* lines 62-87: read the name; the entries set here are read back unchanged
CfgStart ==
  /\ cfg_pc = "start"
  /\ cfg_name' = cfg_ctx["name"]
  /\ cfg_pc' = "loop"
  /\ UNCHANGED <<cfg_ctx, cfg_years, cfg_res_files, cfg_option, cfg_i, cfg_calls,
                 cfg_outcome, cfg_error>>
  /\ UNCHANGED <<sumvars, pervars, runvars, pfvars>>

\* lines 90-111: the year's resource file, output file and name, and the
\* check of the year against the resource file
CfgYear ==
  /\ cfg_pc = "loop"
  /\ cfg_i < Len(cfg_years)
  /\ LET year == cfg_years[cfg_i + 1]
         res == ("res_file" :> cfg_res_files[cfg_i + 1])
     IN /\ cfg_ctx' = IF ~HasYear(cfg_name)
                      THEN ("fout" :> (cfg_name \o <<"_">> \o ToStr(year) \o H5))
                           @@ ("name" :> (cfg_name \o <<"_">> \o ToStr(year)))
                           @@ res @@ cfg_ctx
                      ELSE res @@ cfg_ctx
        /\ IF ~Contains(cfg_res_files[cfg_i + 1], ToStr(year))
           THEN CfgFails(Raise("Exception"))
           ELSE /\ cfg_pc' = "invoke"
                /\ UNCHANGED <<cfg_outcome, cfg_error>>
  /\ UNCHANGED <<cfg_name, cfg_years, cfg_res_files, cfg_option, cfg_i, cfg_calls>>
  /\ UNCHANGED <<sumvars, pervars, runvars, pfvars>>

\* what the invoked run read from ctx.obj
CallOf(option) ==
  [option |-> option, year |-> cfg_years[cfg_i + 1], name |-> cfg_ctx["name"],
   fout |-> cfg_ctx["fout"], res_file |-> cfg_ctx["res_file"]]

\* lines 114-119 and 190-221: the local run reads ctx.obj and runs
CfgInvokeLocal ==
  /\ cfg_pc = "invoke"
  /\ cfg_option = "local"
  /\ IF "fout" \notin DOMAIN cfg_ctx
     THEN \* line 196
          /\ CfgFails(Raise("KeyError"))
          /\ UNCHANGED <<cfg_calls, cfg_i>>
     ELSE /\ cfg_calls' = Append(cfg_calls, CallOf("local"))
          /\ cfg_i' = cfg_i + 1
          /\ cfg_pc' = "loop"
          /\ UNCHANGED <<cfg_outcome, cfg_error>>
  /\ UNCHANGED <<cfg_ctx, cfg_name, cfg_years, cfg_res_files, cfg_option>>
  /\ UNCHANGED <<sumvars, pervars, runvars, pfvars>>

\* lines 121-126 and 239-248: peregrine is invoked and reads ctx.obj
CfgInvokePeregrine ==
  /\ cfg_pc = "invoke"
  /\ cfg_option = "peregrine"
  /\ UNCHANGED <<cfg_ctx, cfg_name, cfg_years, cfg_res_files, cfg_option, cfg_i>>
  /\ UNCHANGED <<sumvars, runvars, pfvars>>
  /\ IF "fout" \notin DOMAIN cfg_ctx
     THEN \* line 245
          /\ CfgFails(Raise("KeyError"))
          /\ UNCHANGED <<cfg_calls, pervars>>
     ELSE /\ cfg_calls' = Append(cfg_calls, CallOf("peregrine"))
          /\ cfg_pc' = "peregrine"
          /\ UNCHANGED <<cfg_outcome, cfg_error>>
          /\ ctx_name' = cfg_ctx["name"]
          /\ ctx_fout' = cfg_ctx["fout"]
          /\ ctx_obj' = CtxObj(FALSE)
          /\ points' = "slice"
          /\ n_sites' = 2
          /\ nodes' \in {PyInt(1), PyInt(2)}
          /\ fout' = <<>>
          /\ splits' = <<>>
          /\ jobs' = <<>>
          /\ per_outcome' = "running"
          /\ per_error' = NoError
          /\ per_pc' = "call"

\* lines 127-129
CfgInvokeOther ==
  /\ cfg_pc = "invoke"
  /\ cfg_option \notin {"local", "peregrine"}
  /\ CfgFails(Raise("ConfigError"))
  /\ UNCHANGED <<cfg_ctx, cfg_name, cfg_years, cfg_res_files, cfg_option, cfg_i, cfg_calls>>
  /\ UNCHANGED <<sumvars, pervars, runvars, pfvars>>

\* ctx.invoke(peregrine, ...) is over: its exception leaves from_config, or
\* the loop goes on
CfgPeregrineDone ==
  /\ cfg_pc = "peregrine"
  /\ per_pc = "done"
  /\ IF per_outcome = "raised"
     THEN /\ CfgFails(per_error)
          /\ UNCHANGED cfg_i
     ELSE /\ cfg_i' = cfg_i + 1
          /\ cfg_pc' = "loop"
          /\ UNCHANGED <<cfg_outcome, cfg_error>>
  /\ UNCHANGED <<cfg_ctx, cfg_name, cfg_years, cfg_res_files, cfg_option, cfg_calls>>
  /\ UNCHANGED <<sumvars, pervars, runvars, pfvars>>

\* the loop at line 90 is over
CfgReturn ==
  /\ cfg_pc = "loop"
  /\ cfg_i = Len(cfg_years)
  /\ cfg_outcome' = "returned"
  /\ cfg_pc' = "done"
  /\ UNCHANGED <<cfg_ctx, cfg_name, cfg_years, cfg_res_files, cfg_option, cfg_i,
                 cfg_calls, cfg_error>>
  /\ UNCHANGED <<sumvars, pervars, runvars, pfvars>>

ConfigNext ==
  \/ CfgStart
  \/ CfgYear
  \/ CfgInvokeLocal
  \/ CfgInvokePeregrine
  \/ CfgInvokeOther
  \/ (cfg_pc = "peregrine" /\ PeregrineNext)
  \/ CfgPeregrineDone
  \/ CfgReturn

SpecConfig == InitConfig /\ [][ConfigNext]_vars

\* ------------------------------------------------------------- _preflight
\* the keys of the two REQUIREMENTS tuples, as strings of characters
FpathExcl == <<"f", "p", "a", "t", "h", "_", "e", "x", "c", "l">>
FpathGen == <<"f", "p", "a", "t", "h", "_", "g", "e", "n">>
FpathTechmap == <<"f", "p", "a", "t", "h", "_", "t", "e", "c", "h", "m", "a", "p">>
DsetTm == <<"d", "s", "e", "t", "_", "t", "m">>
RevSummary == <<"r", "e", "v", "_", "s", "u", "m", "m", "a", "r", "y">>
RegCols == <<"r", "e", "g", "_", "c", "o", "l", "s">>
FpathRes == <<"f", "p", "a", "t", "h", "_", "r", "e", "s">>
\* REQUIREMENTS of the class named cls
Requirements(cls) ==
  IF cls = "sc_agg" THEN <<FpathExcl, FpathGen, FpathTechmap, DsetTm>>
  ELSE <<FpathGen, RevSummary, RegCols>>
\* the keys a config of the class can hold in the model
ConfigKeys(cls) ==
  {Requirements(cls)[k] : k \in 1..Len(Requirements(cls))}
    \cup (IF cls = "sc_agg" THEN {FpathRes} ELSE {})
\* a value given in the config file
Given == [kind |-> "str", val |-> "x"]
\* the config dicts: each key absent, null or given
Configs(cls) ==
  UNION {[present -> {PyNone, Given}] : present \in SUBSET ConfigKeys(cls)}

\* a config object is about to run _preflight
InitPreflight ==
  /\ pf_class \in {"sc_agg", "rep_profiles"}
  /\ pf_config \in Configs(pf_class)
  /\ pf_techmap \in (IF pf_class = "sc_agg" THEN BOOLEAN ELSE {FALSE})
  /\ pf_missing = <<>>
  /\ pf_req = <<>>
  /\ pf_i = 0
  /\ pf_outcome = "running"
  /\ pf_error = NoError
  /\ pf_msg = ""
  /\ pf_pc = "loop"
  /\ ds_shape = <<1>>
  /\ ds_chunks = PyNone
  /\ seed = 0
  /\ process_size = PyNone
  /\ max_workers = PyInt(1)
  /\ out_path = PyNone
  /\ SumIdle
  /\ PerIdle
  /\ RunIdle
  /\ CfgIdle

\* self.get(key, None)
ConfigGet(key) == IF key \in DOMAIN pf_config THEN pf_config[key] ELSE PyNone
\* any(x) for a list of strings: some element is a non-empty string
AnyOfList(l) == \E k \in 1..Len(l) : l[k] # <<>>
\* any(x) for a string: it iterates the characters, each a non-empty string
AnyOfStr(str) == \E k \in 1..Len(str) : str[k] # ""

\* one iteration of `for req in self.REQUIREMENTS` (lines 44-46 of
\* supply_curve_configs.py, 43-45 of rep_profiles_config.py)
PfCheckKey ==
  /\ pf_pc = "loop"
  /\ pf_i < Len(Requirements(pf_class))
  /\ pf_req' = Requirements(pf_class)[pf_i + 1]
  /\ pf_missing' = IF IsNone(ConfigGet(pf_req')) THEN Append(pf_missing, pf_req')
                   ELSE pf_missing
  /\ pf_i' = pf_i + 1
  /\ UNCHANGED <<pf_class, pf_config, pf_techmap, pf_outcome, pf_error, pf_msg, pf_pc>>
  /\ UNCHANGED <<sumvars, pervars, runvars, cfgvars>>

\* line 47 of supply_curve_configs.py tests any(req), line 46 of
\* rep_profiles_config.py tests any(missing)
MissingTest ==
  IF pf_class = "sc_agg" THEN AnyOfStr(pf_req) ELSE AnyOfList(pf_missing)

\* after the loop: the test and its ConfigError, then for the aggregation
\* config the techmap check of lines 51-54
PfDecide ==
  /\ pf_pc = "loop"
  /\ pf_i = Len(Requirements(pf_class))
  /\ pf_pc' = "done"
  /\ IF MissingTest
     THEN /\ pf_outcome' = "raised"
          /\ pf_error' = Raise("ConfigError")
          /\ pf_msg' = "missing the following keys"
     ELSE IF pf_class = "sc_agg" /\ ~pf_techmap /\ IsNone(ConfigGet(FpathRes))
     THEN /\ pf_outcome' = "raised"
          /\ pf_error' = Raise("ConfigError")
          /\ pf_msg' = "Techmap file not found"
     ELSE /\ pf_outcome' = "returned"
          /\ UNCHANGED <<pf_error, pf_msg>>
  /\ UNCHANGED <<pf_class, pf_config, pf_techmap, pf_missing, pf_req, pf_i>>
  /\ UNCHANGED <<sumvars, pervars, runvars, cfgvars>>

PreflightNext ==
  \/ PfCheckKey
  \/ PfDecide

SpecPreflight == InitPreflight /\ [][PreflightNext]_vars

\* ------------------------------------------------------------------ claims
Gids(table) == [k \in 1..Len(table) |-> table[k].gid]
PoolPath == Len(futures) > 0
SerialChunkPath == Len(futures) = 0 /\ Len(results) > 0
WorkerRaised == \E k \in 1..Len(futures) : futures[k].status = "exc"
FirstRaised == CHOOSE k \in 1..Len(futures) :
                 /\ futures[k].status = "exc"
                 /\ \A j \in 1..(k - 1) : futures[j].status # "exc"
NumJobs == Cardinality(DOMAIN jobs)
NodeSuffix(i) == <<"_", "n", "o", "d", "e", "_">> \o ToStr(i) \o H5

\* C1: on the pool path (max_workers > 1) the merged table that summarize_dset
\* builds and returns holds every unit of [0, N) exactly once, in unit order,
\* whatever the order in which the workers finished their chunks.
C1_PoolMergeInUnitOrder ==
  (PoolPath /\ (pc = "merged" \/ outcome = "returned"))
    => Gids(summary) = Arange(NumUnits)
\* a pool run returned although a later chunk's worker finished before an earlier one's
C1_Witness ==
  /\ PoolPath
  /\ outcome = "returned"
  /\ \E a, b \in 1..Len(completed) : a < b /\ completed[a] > completed[b]

\* C2: for N > 0 units and process_size > 0 the chunks planned on the pool path
\* and on the serial chunked path are non-empty runs of consecutive units that,
\* taken in order, make up exactly 0..N-1, and there are ceil(N / process_size)
\* of them.
C2_ChunksPartitionUnits ==
  (pc \in {"pool", "serial"}) =>
    /\ \A i \in 1..Len(sites) : Len(sites[i]) >= 1
    /\ sites[1][1] = 0
    /\ \A i \in 1..(Len(sites) - 1) : sites[i + 1][1] = sites[i][Len(sites[i])] + 1
    /\ sites[Len(sites)][Len(sites[Len(sites)])] = NumUnits - 1
    /\ \A i \in 1..Len(sites) : \A k \in 1..(Len(sites[i]) - 1) :
         sites[i][k + 1] = sites[i][k] + 1
    /\ Len(sites) * process_size.val >= NumUnits
    /\ (Len(sites) - 1) * process_size.val < NumUnits
\* a serial plan of three or more chunks for a unit count that is no multiple
\* of process_size
C2_Witness ==
  /\ pc = "serial"
  /\ Len(sites) >= 3
  /\ NumUnits % process_size.val # 0

\* C3 as stated: every planned chunk but the last has exactly process_size
\* units, the last at most process_size; 250 units in chunks of 100 are planned
\* as [0,100), [100,200), [200,250).
C3_FixedSizeChunks ==
  (pc \in {"pool", "serial"}) =>
    /\ \A i \in 1..(Len(sites) - 1) : Len(sites[i]) = process_size.val
    /\ Len(sites[Len(sites)]) <= process_size.val
    /\ (NumUnits = 250 /\ process_size.val = 100) =>
         sites = <<[k \in 1..100 |-> k - 1], [k \in 1..100 |-> k + 99],
                   [k \in 1..50 |-> k + 199]>>
\* C3 amended: every planned chunk has at least one and at most process_size
\* units, the chunk sizes never increase and differ by at most one; 250 units
\* with process_size 100 are planned as [0,84), [84,167), [167,250).
C3_BalancedChunks ==
  (pc \in {"pool", "serial"}) =>
    /\ \A i \in 1..Len(sites) :
         Len(sites[i]) >= 1 /\ Len(sites[i]) <= process_size.val
    /\ \A i \in 1..(Len(sites) - 1) : Len(sites[i]) >= Len(sites[i + 1])
    /\ Len(sites[1]) - Len(sites[Len(sites)]) <= 1
    /\ (NumUnits = 250 /\ process_size.val = 100) =>
         sites = <<[k \in 1..84 |-> k - 1], [k \in 1..83 |-> k + 83],
                   [k \in 1..83 |-> k + 166]>>
\* the plan for 250 units with process_size 100
C3_Witness ==
  /\ pc = "serial"
  /\ NumUnits = 250
  /\ process_size.val = 100
  /\ Len(sites) = 3

\* C4: for a 2-D dataset the table returned through a chunked path (serial
\* chunks or pool workers, then concatenation) is the table the single pass
\* over all units computes: the same rows, in the same order, with the same
\* statistics, the sum included.
C4_ChunkedEqualsSinglePass ==
  (outcome = "returned" /\ (PoolPath \/ SerialChunkPath))
    => summary = ComputeSitesSummary(Arange(NumUnits))
\* a serial chunked run over two or more chunks returned
C4_Witness ==
  /\ outcome = "returned"
  /\ SerialChunkPath
  /\ Len(results) >= 2

\* C5 as stated: once the peregrine dispatch has entered its loop it ends by
\* returning a job mapping with one entry per chunk, whichever submissions
\* failed (no job id, or an exception of the backend).
C5_EveryChunkRecorded ==
  (per_pc = "done" /\ Len(splits) > 0) =>
    /\ per_outcome = "returned"
    /\ DOMAIN jobs = 0..(Len(splits) - 1)

\* C6 as stated: with node count `nodes` no larger than the number of sites,
\* the returned job mapping has exactly `nodes` entries.
C6_OneJobPerNode ==
  (per_outcome = "returned" /\ nodes.val <= n_sites) => NumJobs = nodes.val
\* C6 amended: the returned job mapping has ceil(N / sites_per_node) entries,
\* where sites_per_node = ceil(N / nodes); that is at least one and at most
\* `nodes`, and fewer than `nodes` for, e.g., 4 sites on 3 nodes (2 jobs).
C6_JobsCoverSitesPerNode ==
  (per_outcome = "returned") =>
    /\ NumJobs >= 1
    /\ NumJobs <= nodes.val
    /\ \E spn \in 1..n_sites :
         /\ spn * nodes.val >= n_sites
         /\ (spn - 1) * nodes.val < n_sites
         /\ NumJobs * spn >= n_sites
         /\ (NumJobs - 1) * spn < n_sites
\* 4 sites on 3 nodes: 2 sites per node, 2 jobs
C6_Witness ==
  /\ per_outcome = "returned"
  /\ n_sites = 4
  /\ nodes.val = 3
  /\ NumJobs = 2

\* C7: within one dispatch run the chunks' output file names are pairwise
\* different, so are their job names, and every output file name is one and
\* the same base followed by '_node_<i>.h5' (the base does not change from one
\* iteration to the next).
C7_DistinctOutputs ==
  /\ \A i, j \in DOMAIN jobs :
       i # j => (jobs[i].fout # jobs[j].fout /\ jobs[i].name # jobs[j].name)
  /\ \A i \in DOMAIN jobs :
       /\ EndsWith(jobs[i].fout, NodeSuffix(i))
       /\ SubSeq(jobs[i].fout, 1, Len(jobs[i].fout) - Len(NodeSuffix(i)))
            = SubSeq(jobs[0].fout, 1, Len(jobs[0].fout) - Len(NodeSuffix(0)))
       /\ jobs[i].name = ctx_name \o <<"_">> \o ToStr(i)
\* a run that submitted two or more chunks for an output name ending in .h5
C7_Witness ==
  /\ NumJobs >= 2
  /\ EndsWith(ctx_fout, H5)
  /\ Len(ctx_fout) > 3

\* C8 as stated: for a base output file name X.h5, chunk i's output file name
\* is X followed by '_node_<i>.h5'.
C8_OnlyExtensionRemoved ==
  \A i \in DOMAIN jobs :
    EndsWith(ctx_fout, H5) =>
      jobs[i].fout = SubSeq(ctx_fout, 1, Len(ctx_fout) - 3) \o NodeSuffix(i)

\* C9 as stated: when a pool worker raised, the call fails with a
\* WorkerExecutionError that carries the failing chunk's index and the
\* worker's exception as its cause.
C9_WorkerExecutionError ==
  (pc = "done" /\ WorkerRaised) =>
    /\ outcome = "raised"
    /\ error.type = "WorkerExecutionError"
    /\ error.chunk_index = {FirstRaised - 1}
    /\ error.cause = futures[FirstRaised].exc.type
\* C9 amended: when a pool worker raised, the call fails with the worker's own
\* exception, re-raised as it is by future.result(): the exception of the
\* first chunk, in chunk order, whose worker raised; it is not wrapped and
\* carries no chunk index.
C9_WorkerExceptionReraised ==
  (pc = "done" /\ WorkerRaised) =>
    /\ outcome = "raised"
    /\ error = futures[FirstRaised].exc
    /\ error.type \in WorkerErrors
    /\ error.chunk_index = {}
\* the call failed on a chunk's exception after collecting at least one
\* earlier chunk, while the worker of a later chunk had raised as well
C9_Witness ==
  /\ pc = "done"
  /\ outcome = "raised"
  /\ Len(results) >= 1
  /\ \E k \in 1..Len(futures) : k > FirstRaised /\ futures[k].status = "exc"

\* C10: no partial success. A call in which a chunk's computation failed
\* returns no table and writes no file; the file at out_path is written only
\* once every chunk's table has been collected and concatenated, and it then
\* holds the complete table.
C10_NoPartialSuccess ==
  /\ (pc = "done" /\ WorkerRaised) => outcome = "raised"
  /\ (outcome = "raised") => ~csv.written
  /\ (outcome = "returned" /\ (PoolPath \/ SerialChunkPath)) =>
       /\ Len(results) = Len(sites)
       /\ \A k \in 1..Len(results) : Len(results[k]) = Len(sites[k])
  /\ csv.written =>
       /\ outcome = "returned"
       /\ csv.table = summary
       /\ (Len(ds_shape) > 1) => Len(csv.table) = NumUnits
\* with an out_path given, a chunk failed after earlier chunks had succeeded
C10_Witness ==
  /\ outcome = "raised"
  /\ error.type \in WorkerErrors
  /\ Len(results) >= 1
  /\ ~IsNone(out_path)
  /\ ~csv.written

\* ------------------------------------------------------------- the merge
\* The merge step of summarize_dset (pd.concat and what follows it) as a
\* function of the list of per-chunk tables: the list holds, for each planned
\* chunk, the chunk's table, that table without its last row, or that table
\* with its last row twice.
ShortTable(table) == SubSeq(table, 1, Len(table) - 1)
PaddedTable(table) == Append(table, table[Len(table)])
ChunkTables(chunks) ==
  {[k \in 1..Len(chunks) |->
      LET full == ComputeSitesSummary(chunks[k])
      IN IF shape[k] = "short" THEN ShortTable(full)
         ELSE IF shape[k] = "padded" THEN PaddedTable(full)
         ELSE full] :
     shape \in [1..Len(chunks) -> {"full", "short", "padded"}]}

InitMerge ==
  /\ ds_shape \in {<<NumTimes, n>> : n \in 1..MaxUnits}
  /\ ds_chunks = PyNone
  /\ seed \in DataSeeds
  /\ process_size \in {PyInt(n) : n \in 1..MaxProcessSize}
  /\ max_workers = PyInt(1)
  /\ out_path \in OutPaths
  /\ sites = PlanChunks(NumUnits, process_size)
  /\ results \in ChunkTables(sites)
  /\ futures = <<>>
  /\ completed = <<>>
  /\ summary = <<>>
  /\ warned = FALSE
  /\ csv = [written |-> FALSE, table |-> <<>>]
  /\ outcome = "running"
  /\ error = NoError
  /\ pc = "serial"
  /\ PerIdle
  /\ RunIdle
  /\ CfgIdle
  /\ PfIdle

MergeNext ==
  \/ Concat
  \/ WriteReturn

SpecMerge == InitMerge /\ [][MergeNext]_vars

RECURSIVE TotalRows(_)
TotalRows(tables) == IF tables = <<>> THEN 0 ELSE Len(Head(tables)) + TotalRows(Tail(tables))
Merged == pc \in {"merged", "done"}

InitPartition ==
  \/ /\ ds_shape \in {<<NumTimes, n>> : n \in 0..MaxUnits}
     /\ ds_chunks \in ChunksOf(ds_shape)
     /\ seed \in DataSeeds
     /\ process_size \in ProcessSizes
     /\ max_workers \in WorkerCounts
     /\ out_path \in OutPaths
     /\ SumIdle
     /\ PerIdle
     /\ RunIdle
     /\ CfgIdle
     /\ PfIdle
  \/ InitPeregrine

PartitionNext ==
  \/ per_pc = "idle" /\ Call
  \/ PeregrineNext

SpecPartition == InitPartition /\ [][PartitionNext]_vars

\* summarize_dset was asked to plan chunks with an integer process_size
PlansChunks ==
  /\ per_pc = "idle"
  /\ pc # "call"
  /\ Len(ds_shape) > 1
  /\ IsInt(max_workers)
  /\ IsInt(process_size)
PointsAccepted == points \in {"str", "slice", "list", "tuple"}

\* C12 as stated: a process_size <= 0 or a unit count of 0 in summarize_dset,
\* and a node count of 0 or above the number of sites in peregrine, end the
\* call with an InvalidPartitionError, no worker started and no job submitted.
C12_InvalidPartitionError ==
  /\ (PlansChunks /\ (process_size.val <= 0 \/ NumUnits = 0)) =>
       /\ outcome = "raised"
       /\ error.type = "InvalidPartitionError"
       /\ futures = <<>>
  /\ (per_pc = "done" /\ PointsAccepted /\ (nodes.val <= 0 \/ nodes.val > n_sites)) =>
       /\ per_outcome = "raised"
       /\ per_error.type = "InvalidPartitionError"
       /\ jobs = <<>>
\* C12 amended: there is no InvalidPartitionError. Where summarize_dset plans
\* chunks, a process_size of 0 raises ZeroDivisionError and a negative
\* process_size or a unit count of 0 raises ValueError, before any worker is
\* started or chunk computed; in peregrine a node count of 0 raises
\* ZeroDivisionError before any job is submitted. A node count above the
\* number of sites is accepted: one job per site is submitted.
C12_ArithmeticRejects ==
  /\ (PlansChunks /\ (process_size.val <= 0 \/ NumUnits = 0)) =>
       /\ outcome = "raised"
       /\ error.type = IF process_size.val = 0 THEN "ZeroDivisionError" ELSE "ValueError"
       /\ sites = <<>>
       /\ futures = <<>>
       /\ results = <<>>
  /\ (per_pc \notin {"idle", "call"} /\ PointsAccepted /\ nodes.val = 0) =>
       /\ per_outcome = "raised"
       /\ per_error.type = "ZeroDivisionError"
       /\ jobs = <<>>
  /\ (per_outcome = "returned" /\ nodes.val > n_sites) => NumJobs = n_sites
\* more nodes than sites were asked for and one job per site was returned
C12_Witness ==
  /\ per_outcome = "returned"
  /\ n_sites >= 2
  /\ nodes.val > n_sites
  /\ NumJobs = n_sites

\* C13 as stated: a call with max_workers = None on a 2-D dataset (with a
\* valid process_size) does not fail on its arguments: it takes the pool path.
C13_NoneMeansAllCores ==
  (/\ pc # "call"
   /\ Len(ds_shape) > 1
   /\ IsNone(max_workers)
   /\ IsInt(process_size)
   /\ process_size.val > 0) =>
    /\ error.type # "TypeError"
    /\ PoolPath

\* C14 as stated: on a 1-D dataset every combination of process_size and
\* max_workers leads to the single pass of _compute_ds_summary, and, unless
\* reading the data itself fails, to its table being returned; asking for
\* chunks or workers never makes the call fail.
C14_VectorNeverRejected ==
  (Len(ds_shape) = 1 /\ per_pc = "idle") =>
    /\ pc \notin {"pool", "serial", "single"}
    /\ (pc = "done" /\ error.type \notin WorkerErrors) =>
         (outcome = "returned" /\ summary = ComputeDsSummary)

\* C15 as stated: on a 2-D dataset with max_workers <= 1 no chunks are planned
\* and nothing is merged, whatever process_size is.
C15_OneWorkerOnePass ==
  (Len(ds_shape) > 1 /\ per_pc = "idle" /\ IsInt(max_workers) /\ max_workers.val <= 1) =>
    /\ pc # "serial"
    /\ results = <<>>
\* C15 amended: on a 2-D dataset with max_workers <= 1 the statistics are
\* computed in one pass over all units only when process_size is None; with
\* a process_size the chunks are planned, computed one after the other in
\* the caller's process and concatenated. Futures are submitted only when
\* max_workers > 1, and then neither of the two serial paths is taken.
C15_PathByArguments ==
  (Len(ds_shape) > 1 /\ per_pc = "idle" /\ IsInt(max_workers) /\ pc # "call") =>
    IF max_workers.val <= 1
    THEN /\ futures = <<>>
         /\ pc # "pool"
         /\ IsNone(process_size) =>
              /\ pc \in {"single", "merged", "done"}
              /\ sites = Arange(NumUnits)
              /\ results = <<>>
         /\ (IsInt(process_size) /\ process_size.val > 0) =>
              /\ pc \in {"serial", "merged", "done"}
              /\ \A i \in 1..Len(sites) : Len(sites[i]) >= 1
              /\ (outcome = "returned") => Len(results) = Len(sites)
    ELSE pc \notin {"single", "serial"}
\* one worker and a process_size: two or more chunks computed and merged
C15_Witness ==
  /\ Len(ds_shape) > 1
  /\ IsInt(max_workers)
  /\ max_workers.val = 1
  /\ outcome = "returned"
  /\ Len(results) >= 2
  /\ Len(summary) = NumUnits

\* C16: during a dispatch the job mapping only grows. Its keys are always
\* 0..k-1 for the k iterations done; a step leaves every recorded entry as it
\* is, and a step that records an entry records it under the next index k.
C16_JobsOnlyGrow ==
  [][/\ \A i \in DOMAIN jobs : i \in DOMAIN jobs' /\ jobs'[i] = jobs[i]
     /\ DOMAIN jobs' = 0..(Cardinality(DOMAIN jobs') - 1)
     /\ (jobs' # jobs) => DOMAIN jobs' = DOMAIN jobs \cup {Cardinality(DOMAIN jobs)}]_vars
\* the third iteration has recorded its entry
C16_Witness ==
  /\ per_pc = "loop"
  /\ DOMAIN jobs = {0, 1, 2}

\* C17: the command of chunk i names the job '<name>_<i>', writes to chunk
\* i's own output file and runs the points range of split i; tech, points,
\* sam files, resource file, sites per core, output and log directories and
\* the profile flag are those of the context, the same in every command.
C17_CommandPerChunk ==
  \A i \in DOMAIN jobs :
    /\ jobs[i].cmd.n = ctx_name \o <<"_">> \o ToStr(i)
    /\ jobs[i].cmd.n = jobs[i].name
    /\ EndsWith(jobs[i].cmd.fo, NodeSuffix(i))
    /\ jobs[i].cmd.pr = splits[i + 1]
    /\ jobs[i].cmd.pr.i0 = i * splits[1].i1
    /\ jobs[i].cmd.t = ctx_obj.tech
    /\ jobs[i].cmd.p = points
    /\ jobs[i].cmd.sf = ctx_obj.sam_files
    /\ jobs[i].cmd.rf = ctx_obj.res_file
    /\ jobs[i].cmd.spc = ctx_obj.sites_per_core
    /\ jobs[i].cmd.do = ctx_obj.dirout
    /\ jobs[i].cmd.lo = ctx_obj.logdir
    /\ jobs[i].cmd.cfp = ctx_obj.cf_profiles
    /\ \A j \in DOMAIN jobs :
         [jobs[i].cmd EXCEPT !.n = <<>>, !.fo = <<>>, !.pr = <<>>]
           = [jobs[j].cmd EXCEPT !.n = <<>>, !.fo = <<>>, !.pr = <<>>]
\* a dispatch with the profile flag set returned three commands
C17_Witness ==
  /\ per_outcome = "returned"
  /\ ctx_obj.cf_profiles
  /\ Cardinality(DOMAIN jobs) = 3

\* ---------------------------------------------------------- Summarize.run
RunDone == run_pc = "done"
\* the data sets the files of the loop were written for, in order
FileDsets == [k \in 1..Len(files) |-> files[k].ds_name]

\* C18: run with dsets=None summarizes every data set of the store but meta
\* and time_index: it ends only in a failed read or by returning, and when it
\* returns it has written exactly one '<dataset>_summary.csv' per such data
\* set and one means summary whose added columns are exactly the store's 1-D
\* data sets.
C18_RunSummarizesStore ==
  (RunDone /\ IsNone(run_dsets)) =>
    /\ run_outcome = "raised" => run_error.type \in WorkerErrors
    /\ run_outcome = "returned" =>
         /\ FileDsets = NotReserved(Datasets(run_group))
         /\ \A k \in 1..Len(files) : files[k].path = <<files[k].ds_name, "_summary.csv">>
         /\ means.written
         /\ means.columns = SelectSeq(DsOrder, LAMBDA d : d \in store[run_group] /\ Ndim(d) = 1)

\* C19: run(h5_file, out_dir, group=g) reads every per-data-set summary and
\* the means summary from the group g the list of data sets was resolved in.
C19_GroupUsedConsistently ==
  /\ \A k \in 1..Len(files) :
       /\ files[k].group = run_group
       /\ files[k].table # <<>> => files[k].table[1].sum \in
            {SeqSum([t \in 1..NumTimes |-> 0 * t + SeedOf(run_group)]),
             SeqSum([u \in 1..RunUnits |-> (u - 1) * 1 + SeedOf(run_group)])}
  /\ means.written => means.group = run_group

\* -------------------------------------------------------------- from_config
\* C20: for every year of the config, from_config has set ctx.obj['fout'] to
\* a name holding the year when it invokes the local or peregrine run,
\* whatever the job name: the invoked run never fails on a missing 'fout',
\* and the runs of two different years read different output file names.
C20_FoutSetForEveryYear ==
  /\ cfg_pc = "invoke" =>
       /\ "fout" \in DOMAIN cfg_ctx
       /\ Contains(cfg_ctx["fout"], ToStr(cfg_years[cfg_i + 1]))
  /\ cfg_outcome = "raised" => cfg_error.type # "KeyError"
  /\ \A a, b \in 1..Len(cfg_calls) :
       cfg_calls[a].year # cfg_calls[b].year => cfg_calls[a].fout # cfg_calls[b].fout

\* --------------------------------------------------------------- _preflight
\* the required keys that are absent from the config or None
AbsentOrNone ==
  {k \in 1..Len(Requirements(pf_class)) : IsNone(ConfigGet(Requirements(pf_class)[k]))}

\* C21: _preflight ends with the 'missing the following keys' ConfigError if
\* and only if a required key of its class is absent or None, for the
\* aggregation config as for the rep profiles config: a config that gives
\* every required key passes this check.
C21_MissingKeysIffRaised ==
  pf_pc = "done" =>
    ((pf_outcome = "raised" /\ pf_msg = "missing the following keys")
       <=> AbsentOrNone # {})
====
